---- MODULE Spec2Model ----
(***************************************************************************)
(* A model of the dfirst-payments servers: six single-file variants of one *)
(* Express application that proxies initialize / verify / webhook calls to *)
(* Paystack and, in the last variant, to the M-Pesa STK-push API.          *)
(*                                                                         *)
(* The variants, by where their text lives:                                *)
(*   "S1"  src/server.js         1-151   plain proxy                       *)
(*   "S2"  src/server.js       152-505   cache, M-Pesa via Paystack        *)
(*   "S3"  src/server.js       506-647   paystack-node client              *)
(*   "P1"  src/unnamed/part_000   1-212  verify always redirects           *)
(*   "P2"  src/unnamed/part_000 213-304  paystack-node, verify + webhook   *)
(*   "P3"  src/unnamed/part_000 305-820  cache, M-Pesa STK push            *)
(*                                                                         *)
(* One behaviour is one process running one variant.  A handler that       *)
(* awaits an upstream call is two steps (up to the await, and from the     *)
(* upstream's answer to the response); a handler without await is one.     *)
(* Time is kept relative and counted in ticks, a fixed fraction of the     *)
(* five minutes of a deletion timer: a timer holds the ticks left until it *)
(* is due.                                                                 *)
(***************************************************************************)
EXTENDS Integers, Sequences, FiniteSets, Bags, TLC

\* ------------------------------------------------------------------ bounds
\* Requests that can be suspended at an upstream call at the same time.
MaxReq == 2
\* Deletion timers that can be pending at the same time.
MaxTimers == 2

\* The resolution of the clock: the 5 * 60 * 1000 ms of a deletion timer are
\* this many ticks.
TicksPerTimeout == 2

Variants == {"S1", "S2", "S3", "P1", "P2", "P3"}

\* Transaction references and checkout request ids.
Refs == {"r1", "r2"}

\* An optional field is a sequence of length at most one: << >> is an absent
\* (undefined) field.
Emails == {<< >>, <<"">>, <<"u@x.io">>}
Amounts == {<< >>, <<0>>, <<10>>, <<25>>}
Phones == {<< >>, <<"254700000000">>}

\* The request's metadata: absent, a plain object (card payment), or an object
\* with paymentMethod 'mpesa' and a phoneNumber.
Metas == {"absent", "card", "mpesa"}

\* ------------------------------------------------------------ JS helpers
\* JavaScript truthiness of an optional string field and of an optional
\* number field.
TruthyString(f) ==
    f # << >> /\ f[1] # ""

TruthyNumber(f) ==
    f # << >> /\ f[1] # 0

\* ------------------------------------------------------------ the records
\* A JSON body the provider answers with, or that is cached: which code built
\* it, its top-level status, data.status (or the M-Pesa result code), the
\* reference it is about, and its metadata.
NoBody ==
    [from |-> "-", ok |-> FALSE, dstatus |-> "-", ref |-> "-", meta |-> "-"]

\* Paystack's answers to GET /transaction/verify/<reference>.
\* A paid transaction (with the metadata it was initialized with), an unpaid
\* one, and an error body without data.
PaystackVerifyResponses(reference) ==
    {[from |-> "paystack", ok |-> TRUE, dstatus |-> "success", ref |-> reference,
      meta |-> "meta"],
     [from |-> "paystack", ok |-> TRUE, dstatus |-> "failed", ref |-> reference,
      meta |-> "nometa"],
     [from |-> "paystack", ok |-> FALSE, dstatus |-> "nodata", ref |-> reference,
      meta |-> "nometa"]}

\* A request suspended at its upstream call: its endpoint, its reference, the
\* request's amount with the amount and channel of the payload sent upstream
\* (initialize), and whether it found its cache key already expired (verify).
Request ==
    [ep |-> "-", ref |-> "-", amount |-> 0, sent |-> 0, channel |-> "-",
     after |-> FALSE]

\* The response a step sends: the endpoint, the HTTP status code, the kind of
\* response (json, redirect, or a bare status), the error message it carries,
\* the status parameter of a redirect, the JSON body, the upstream calls the
\* request made and the branch of the handler that answered; and of the
\* request it answers: the Accept header (TRUE when it includes
\* application/json), the reference, whether it found its cache key expired,
\* the data.status of the upstream response it was built from, and (webhook)
\* the request text and the x-paystack-signature header.
NoResponse ==
    [ep |-> "-", code |-> 0, kind |-> "-", message |-> "-", rstatus |-> "-",
     body |-> NoBody, calls |-> 0, branch |-> "-", accept |-> FALSE,
     ref |-> "-", after |-> FALSE,
     upstream |-> "-", raw |-> [event |-> "-", spaced |-> FALSE],
     header |-> << >>]

\* The message of the Error a failed socket rejects the upstream call with.
SocketError == "socket hang up"

\* The message of the TypeError of reading a property of undefined.
TypeError == "Cannot read properties of undefined"

VARIABLES
    variant,    \* the variant this process runs
    refs,       \* the references and checkout request ids its callers use
    alive,      \* FALSE once the process died of an uncaught exception
    global,     \* the process-wide object used as cache: key -> record
    timers,     \* pending setTimeout callbacks, in the order they were set
    expired,    \* the keys a timer deleted and no handler has written since
    reqs,       \* the bag of requests suspended at an upstream call
    out         \* the response the step just taken sent, or NoResponse

vars == <<variant, refs, alive, global, timers, expired, reqs, out>>

\* The reference of a request to /payment/verify: absent, or one in use.
OptRefs == {<< >>} \cup {<<r>> : r \in refs}

\* A lookup that sees successful results only.
HasSuccess(key) == key \in DOMAIN global /\ global[key].ok

\* global[key] as the handlers test it.
Has(key) == key \in DOMAIN global

\* A write that keeps the metadata of the record it replaces.
PutMerged(g, key, rec) ==
    [k \in DOMAIN g \cup {key} |->
        IF k # key THEN g[k]
        ELSE IF key \in DOMAIN g THEN [rec EXCEPT !.meta = g[key].meta]
        ELSE rec]

Put(g, key, rec) ==
    [k \in DOMAIN g \cup {key} |-> IF k = key THEN rec ELSE g[k]]

Delete(g, key) ==
    [k \in DOMAIN g \ {key} |-> g[k]]

\* A timer that is due as soon as it is set.
TimerDue(key, by) ==
    [key |-> key, left |-> 0, fresh |-> TRUE, by |-> by]

\* A pending timer: the key it deletes and the ticks left until it is due,
\* with two notes the program does not keep: the handler whose write set it,
\* and whether that write is still the latest write of its key.
Timer(key, by) ==
    [key |-> key, left |-> TicksPerTimeout, fresh |-> TRUE, by |-> by]

\* global[key] = ... without a setTimeout: the timers of earlier writes of
\* `key` stay pending.
Overwritten(ts, key) ==
    [i \in 1..Len(ts) |->
        IF ts[i].key = key THEN [ts[i] EXCEPT !.fresh = FALSE] ELSE ts[i]]

\* A write that schedules a deletion only if none is pending for the key.
SetTimeoutOnce(ts, key, by) ==
    IF \E i \in 1..Len(ts) : ts[i].key = key
    THEN Overwritten(ts, key)
    ELSE Append(ts, Timer(key, by))

\* global[key] = ... followed by
\* setTimeout(() => { delete global[key] }, 5 * 60 * 1000)
SetTimeout(ts, key, by) ==
    Append(Overwritten(ts, key), Timer(key, by))

\* A handler reaches its await, and a suspended handler goes on.
CanSuspend == BagCardinality(reqs) < MaxReq

Suspend(r) == reqs (+) SetToBag({r})

\* A handler that issues its upstream call again instead of answering.
Reissue(r) == reqs

\* The handler of r answers: r is no longer awaiting its upstream call.
Finish(r) == reqs (-) SetToBag({r})

InFlight == BagToSet(reqs)

\* A process whose callers all use one reference.
Init ==
    /\ variant \in Variants
    /\ refs = {"r1"}
    /\ refs \subseteq Refs
    /\ alive = TRUE
    /\ global = << >>
    /\ timers = << >>
    /\ expired = {}
    /\ reqs = EmptyBag
    /\ out = NoResponse

\* The process dies: resolve(JSON.parse(data)) throws inside the 'end'
\* listener of paystackAPI, outside every try and every promise.
Crash ==
    /\ alive' = FALSE
    /\ global' = << >>
    /\ timers' = << >>
    /\ reqs' = EmptyBag
    /\ out' = NoResponse
    /\ UNCHANGED <<variant, refs, expired>>

\* Whether the variant calls Paystack through paystackAPI (https.request and
\* JSON.parse) rather than through the paystack-node client.
UsesPaystackAPI(v) == v \in {"S1", "S2", "P1", "P3"}

\* ------------------------------------------------------- POST /payment/initialize
HasInitialize(v) == v \in {"S1", "S2", "S3", "P1", "P3"}

\* A validation that rejects absent fields only, not '' or 0.
AbsentField(email, amount) ==
    email = << >> \/ amount = << >>

\* if (!email || !amount)
MissingField(email, amount) ==
    ~TruthyString(email) \/ ~TruthyNumber(amount)

\* S2 takes the M-Pesa branch: metadata?.paymentMethod === 'mpesa' && metadata?.phoneNumber
MpesaBranch(v, meta) ==
    v = "S2" /\ meta = "mpesa"

\* Building the payload reads metadata.tier: a TypeError when metadata is
\* undefined, in the variants that build custom_fields.
PayloadThrows(v, meta) ==
    v \in {"S2", "P1", "P3"} /\ meta = "absent"

\* The amount of the card payload: Math.round(amount * 100) in S1, P1 and P3,
\* amount * 100 in S2, and amount itself in S3.
CardAmount(v, amount) ==
    IF v = "S3" THEN amount ELSE amount * 100

\* The amount of the upstream payload.
PayloadAmount(v, meta, amount) ==
    IF MpesaBranch(v, meta) THEN amount ELSE CardAmount(v, amount)

PayloadChannel(v, meta) ==
    IF MpesaBranch(v, meta) THEN "mobile_money" ELSE "card"

InitializeOut(code, message, calls, branch, body) ==
    [NoResponse EXCEPT !.ep = "initialize", !.code = code, !.kind = "json",
                       !.message = message, !.calls = calls, !.branch = branch,
                       !.body = body]

\* The handler up to its await.
InitializeArrive(email, amount, meta) ==
    /\ alive
    /\ HasInitialize(variant)
    /\ IF MissingField(email, amount)
       THEN /\ out' = InitializeOut(400, "Email and amount are required", 0,
                                    "missing", NoBody)
            /\ UNCHANGED reqs
       ELSE IF PayloadThrows(variant, meta)
       THEN /\ out' = InitializeOut(500, TypeError, 0, "throw", NoBody)
            /\ UNCHANGED reqs
       ELSE /\ CanSuspend
            /\ reqs' = Suspend([Request EXCEPT
                              !.ep = "initialize",
                              !.amount = amount[1],
                              !.sent = PayloadAmount(variant, meta, amount[1]),
                              !.channel = PayloadChannel(variant, meta)])
            /\ out' = NoResponse
    /\ UNCHANGED <<variant, refs, alive, global, timers, expired>>

\* The response to a resolved initialize call whose body has status `ok`.
InitializeResponse(v, r, ok) ==
    IF r.channel = "mobile_money" /\ ~ok
    THEN InitializeOut(500, "Failed to initialize M-Pesa payment: upstream message",
                       1, "reported", NoBody)
    ELSE IF v = "S3" /\ ~ok
    THEN InitializeOut(400, "upstream message", 1, "reported", NoBody)
    ELSE InitializeOut(200, "-", 1, IF ok THEN "resolved" ELSE "reported",
                       [NoBody EXCEPT !.from = "paystack", !.ok = ok])

\* The response to a rejected initialize call.
InitializeRejected(r) ==
    IF r.channel = "mobile_money"
    THEN InitializeOut(500, "Failed to initialize M-Pesa payment: " \o SocketError,
                       1, "reject", NoBody)
    ELSE InitializeOut(500, SocketError, 1, "reject", NoBody)

\* The handler from the upstream's answer on.
InitializeResume(r) ==
    /\ alive
    /\ r.ep = "initialize"
    /\ \/ \E ok \in BOOLEAN :
            /\ out' = InitializeResponse(variant, r, ok)
            /\ reqs' = Finish(r)
            /\ UNCHANGED <<variant, refs, alive, global, timers, expired>>
       \/ /\ out' = InitializeRejected(r)
          /\ reqs' = Finish(r)
          /\ UNCHANGED <<variant, refs, alive, global, timers, expired>>
       \/ /\ UsesPaystackAPI(variant)
          /\ Crash

\* ------------------------------------------------------------ GET /payment/verify
\* The variants whose route is /payment/verify?reference= (the others route
\* /payment/verify/:reference, which no request without a reference matches).
HasQueryVerify(v) == v \in {"S2", "P1", "P3"}

\* The variants that keep verification results in `global`.
CachesVerify(v) == v \in {"S2", "P3"}

\* const verificationKey = `verification_${reference}`
VKey(reference) == <<"verification", reference>>

\* Whether the record of `key` has expired: a timer deleted it and nothing
\* has written the key since.
Expired(key) == key \in expired

VerifyOut(code, kind, message, rstatus, body, calls, branch, accept, ref, after) ==
    [NoResponse EXCEPT !.ep = "verify", !.code = code, !.kind = kind,
                       !.message = message, !.rstatus = rstatus, !.body = body,
                       !.calls = calls, !.branch = branch, !.accept = accept,
                       !.ref = ref, !.after = after]

\* A response built from the upstream response `resp`.
Answering(resp, o) == [o EXCEPT !.upstream = resp.dstatus]

\* A catch block that answers every caller 500 with the error's message.
VerifyCaughtAs500(v, accept, message, calls, branch, ref, after) ==
    VerifyOut(500, "json", message, "-", NoBody, calls, branch, accept, ref,
              after)

\* The catch block of the verify handler, for an error with `message`.
VerifyCaught(v, accept, message, calls, branch, ref, after) ==
    IF CachesVerify(v)
    THEN IF accept
         THEN VerifyOut(500, "json", message, "-", NoBody, calls, branch,
                        accept, ref, after)
         ELSE VerifyOut(302, "redirect", message, "failed", NoBody, calls,
                        branch, accept, ref, after)
    ELSE IF v = "P1"
    THEN VerifyOut(302, "redirect", message, "failed", NoBody, calls, branch,
                   accept, ref, after)
    ELSE IF v = "S1"
    THEN VerifyOut(500, "json", "Payment verification failed", "-", NoBody,
                   calls, branch, accept, ref, after)
    ELSE VerifyOut(500, "json", message, "-", NoBody, calls, branch, accept,
                   ref, after)

\* A test of the response's own status flag instead of data.status.
SuccessOfFlag(resp) == resp.ok

\* const success = response?.data?.status === 'success'
Success(resp) == resp.dstatus = "success"

\* A status derived from the response's own status flag.
RedirectStatusOfFlag(resp) ==
    IF resp.ok THEN "success" ELSE "failed"

\* status=${success ? 'success' : 'failed'}
RedirectStatus(resp) ==
    IF Success(resp) THEN "success" ELSE "failed"

\* if (success && metadata) metadata.paymentReference = reference
Tagged(resp) ==
    IF Success(resp) /\ resp.meta = "meta"
    THEN [resp EXCEPT !.meta = "meta+ref"]
    ELSE resp

\* req.headers.accept?.includes('application/json') decides between
\* res.json(response) and res.redirect(redirectUrl).
CachedVerifyResponse(resp, accept, ref, after) ==
    IF accept
    THEN Answering(resp, VerifyOut(200, "json", "-", "-", resp, 1, "miss",
                                   accept, ref, after))
    ELSE Answering(resp, VerifyOut(302, "redirect", "-", RedirectStatus(resp),
                                   NoBody, 1, "miss", accept, ref, after))

\* The response of the variants without cache to a resolved upstream call.
PlainVerifyResponse(v, resp, accept, ref) ==
    IF v = "S1"
    THEN Answering(resp, VerifyOut(200, "json", "-", "-", resp, 1, "miss",
                                   accept, ref, FALSE))
    ELSE IF v = "P1"
    THEN Answering(resp, VerifyOut(302, "redirect", "-", RedirectStatus(resp),
                                   NoBody, 1, "miss", accept, ref, FALSE))
    ELSE IF resp.dstatus = "nodata"
    THEN VerifyCaught(v, accept, TypeError, 1, "throw", ref, FALSE)
    ELSE IF Success(resp)
    THEN Answering(resp, VerifyOut(200, "json", "-", "-", resp, 1, "miss",
                                   accept, ref, FALSE))
    ELSE Answering(resp, VerifyOut(400, "json", "Payment verification failed",
                                   "-", resp, 1, "reported", accept, ref, FALSE))

\* The handler up to its await: the reference check, the cache lookup, and the
\* upstream call on a miss.
VerifyArrive(reference, accept) ==
    /\ alive
    /\ reference = << >> => HasQueryVerify(variant)
    /\ IF reference = << >>
       THEN /\ out' = VerifyCaught(variant, accept, "No reference provided", 0,
                                   "throw", "-", FALSE)
            /\ UNCHANGED reqs
       ELSE IF CachesVerify(variant) /\ Has(VKey(reference[1]))
       THEN /\ out' = VerifyOut(200, "json", "-", "-", global[VKey(reference[1])],
                                0, "hit", accept, reference[1], FALSE)
            /\ UNCHANGED reqs
       ELSE /\ CanSuspend
            /\ reqs' = Suspend([Request EXCEPT
                              !.ep = "verify", !.ref = reference[1],
                              !.after = Expired(VKey(reference[1]))])
            /\ out' = NoResponse
    /\ UNCHANGED <<variant, refs, alive, global, timers, expired>>

\* A handler that caches successful verifications only.
VerifyResolvedCachesSuccess(r, resp, accept) ==
    IF CachesVerify(variant) /\ Success(resp)
    THEN /\ Len(timers) < MaxTimers
         /\ global' = Put(global, VKey(r.ref), Tagged(resp))
         /\ timers' = SetTimeout(timers, VKey(r.ref), "verify")
         /\ expired' = expired \ {VKey(r.ref)}
         /\ out' = CachedVerifyResponse(Tagged(resp), accept, r.ref, r.after)
         /\ reqs' = Finish(r)
         /\ UNCHANGED <<variant, refs, alive>>
    ELSE /\ out' = IF CachesVerify(variant)
                   THEN CachedVerifyResponse(Tagged(resp), accept, r.ref,
                                             r.after)
                   ELSE PlainVerifyResponse(variant, resp, accept, r.ref)
         /\ reqs' = Finish(r)
         /\ UNCHANGED <<variant, refs, alive, global, timers, expired>>

\* The handler from a resolved upstream call on.
VerifyResolved(r, resp, accept) ==
    IF CachesVerify(variant)
    THEN /\ Len(timers) < MaxTimers
         /\ global' = Put(global, VKey(r.ref), Tagged(resp))
         /\ timers' = SetTimeout(timers, VKey(r.ref), "verify")
         /\ expired' = expired \ {VKey(r.ref)}
         /\ out' = CachedVerifyResponse(Tagged(resp), accept, r.ref, r.after)
         /\ reqs' = Finish(r)
         /\ UNCHANGED <<variant, refs, alive>>
    ELSE /\ out' = PlainVerifyResponse(variant, resp, accept, r.ref)
         /\ reqs' = Finish(r)
         /\ UNCHANGED <<variant, refs, alive, global, timers, expired>>

\* A catch block that caches the failure as a failed verification.
VerifyRejectedCached(r, accept) ==
    /\ out' = VerifyCaught(variant, accept, SocketError, 1, "reject", r.ref,
                           r.after)
    /\ reqs' = Finish(r)
    /\ IF CachesVerify(variant) /\ Len(timers) < MaxTimers
       THEN /\ global' = Put(global, VKey(r.ref),
                             [from |-> "paystack", ok |-> FALSE,
                              dstatus |-> "nodata", ref |-> r.ref,
                              meta |-> "nometa"])
            /\ timers' = SetTimeout(timers, VKey(r.ref), "verify")
            /\ UNCHANGED <<variant, refs, alive, expired>>
       ELSE UNCHANGED <<variant, refs, alive, global, timers, expired>>

\* The handler from a rejected upstream call on: the catch block answers, and
\* the statements after the await are skipped.
VerifyRejected(r, accept) ==
    /\ out' = VerifyCaught(variant, accept, SocketError, 1, "reject", r.ref,
                           r.after)
    /\ reqs' = Finish(r)
    /\ UNCHANGED <<variant, refs, alive, global, timers, expired>>

\* The handler from the upstream's answer on.
VerifyResume(r) ==
    /\ alive
    /\ r.ep = "verify"
    /\ \/ \E resp \in PaystackVerifyResponses(r.ref), accept \in BOOLEAN :
            VerifyResolved(r, resp, accept)
       \/ \E accept \in BOOLEAN : VerifyRejected(r, accept)
       \/ /\ UsesPaystackAPI(variant)
          /\ Crash

\* ------------------------------------------------------------------ POST /webhook
\* The event names a webhook body carries; "-" is a body without one.
Events == {"charge.success", "transfer.success", "invoice.create", "-"}

\* The request text: its content, and whether it is written with white space.
RawBodies == [event : Events, spaced : BOOLEAN]

\* express.json(): the parsed body.
Parse(raw) == [event |-> raw.event]

\* JSON.stringify(req.body): the compact text of the parsed body.
Stringify(body) == [event |-> body.event, spaced |-> FALSE]

\* process.env.PAYSTACK_SECRET_KEY, and a key the provider does not hold.
Secret == "sk_live"
SigningKeys == {Secret, "sk_other"}

\* crypto.createHmac('sha512', key).update(text).digest('hex'), collision free.
Hmac(key, text) == <<key, text>>

\* The x-paystack-signature header: absent, or the digest its sender computed.
Signatures == {<< >>} \cup {<<Hmac(k, t)>> : k \in SigningKeys, t \in RawBodies}

\* The digest the handler recomputes.
WebhookHash(raw) == Hmac(Secret, Stringify(Parse(raw)))

\* A comparison that lets a request without the header through.
SignatureOptional(hash, header) ==
    header = << >> \/ header[1] = hash

\* if (hash === req.headers['x-paystack-signature'])
SignatureOk(hash, header) ==
    header # << >> /\ header[1] = hash

\* A switch without the transfer.success case.
DispatchChargeOnly(event) ==
    IF event = "charge.success" THEN "charge.success" ELSE "default"

\* switch (event.event): the branch that logs.
Dispatch(event) ==
    IF event = "charge.success" THEN "charge.success"
    ELSE IF event = "transfer.success" THEN "transfer.success"
    ELSE "default"

WebhookOut(code, branch, raw, header) ==
    [NoResponse EXCEPT !.ep = "webhook", !.code = code, !.kind = "status",
                       !.branch = branch, !.raw = raw, !.header = header]

\* A handler that stores what a signed charge.success reports, as the handler
\* of POST /mpesa/webhook does.
WebhookStores(raw, header) ==
    /\ alive
    /\ out' = IF SignatureOk(WebhookHash(raw), header)
              THEN WebhookOut(200, Dispatch(Parse(raw).event), raw, header)
              ELSE WebhookOut(400, "-", raw, header)
    /\ IF SignatureOk(WebhookHash(raw), header)
          /\ Parse(raw).event = "charge.success"
       THEN \E reference \in refs :
              global' = Put(global, VKey(reference),
                            [from |-> "webhook", ok |-> TRUE,
                             dstatus |-> "success", ref |-> reference,
                             meta |-> "meta"])
       ELSE UNCHANGED global
    /\ UNCHANGED <<variant, refs, alive, timers, expired, reqs>>

\* The whole handler: it awaits nothing.
Webhook(raw, header) ==
    /\ alive
    /\ out' = IF SignatureOk(WebhookHash(raw), header)
              THEN WebhookOut(200, Dispatch(Parse(raw).event), raw, header)
              ELSE WebhookOut(400, "-", raw, header)
    /\ UNCHANGED <<variant, refs, alive, global, timers, expired, reqs>>

\* ------------------------------------------------------------ POST /mpesa/webhook
\* What the body of a delivery says: a charge.success on channel mobile_money,
\* a charge.success on another channel, a charge.success without data, or
\* another event.
MpesaEvents == {"mobile_money", "card", "nodata", "other"}

MpesaWebhookOut(code, calls, branch, ref) ==
    [NoResponse EXCEPT !.ep = "mwebhook", !.code = code, !.kind = "status",
                       !.calls = calls, !.branch = branch, !.ref = ref]

\* global[verificationKey] = { status: true, data: verificationResponse.data }
WebhookRecord(resp) ==
    [from |-> "webhook", ok |-> TRUE, dstatus |-> resp.dstatus,
     ref |-> resp.ref, meta |-> resp.meta]

\* The handler up to its await (it checks no signature).
MpesaWebhookArrive(event, reference) ==
    /\ alive
    /\ variant = "S2"
    /\ IF event = "nodata"
       THEN /\ out' = MpesaWebhookOut(500, 0, "throw", reference)
            /\ UNCHANGED reqs
       ELSE IF event = "mobile_money"
       THEN /\ CanSuspend
            /\ reqs' = Suspend([Request EXCEPT !.ep = "mwebhook",
                                               !.ref = reference])
            /\ out' = NoResponse
       ELSE /\ out' = MpesaWebhookOut(200, 0, "ignored", reference)
            /\ UNCHANGED reqs
    /\ UNCHANGED <<variant, refs, alive, global, timers, expired>>

\* The handler from a resolved upstream call on.
MpesaWebhookResolved(r, resp) ==
    IF resp.dstatus = "nodata"
    THEN /\ out' = MpesaWebhookOut(500, 1, "throw", r.ref)
         /\ reqs' = Finish(r)
         /\ UNCHANGED <<variant, refs, alive, global, timers, expired>>
    ELSE IF Success(resp)
    THEN /\ Len(timers) < MaxTimers
         /\ global' = Put(global, VKey(r.ref), WebhookRecord(resp))
         /\ timers' = SetTimeout(timers, VKey(r.ref), "webhook")
         /\ expired' = expired \ {VKey(r.ref)}
         /\ out' = MpesaWebhookOut(200, 1, "verified", r.ref)
         /\ reqs' = Finish(r)
         /\ UNCHANGED <<variant, refs, alive>>
    ELSE /\ out' = MpesaWebhookOut(200, 1, "unverified", r.ref)
         /\ reqs' = Finish(r)
         /\ UNCHANGED <<variant, refs, alive, global, timers, expired>>

\* The handler from the upstream's answer on.
MpesaWebhookResume(r) ==
    /\ alive
    /\ r.ep = "mwebhook"
    /\ \/ \E resp \in PaystackVerifyResponses(r.ref) : MpesaWebhookResolved(r, resp)
       \/ /\ out' = MpesaWebhookOut(500, 1, "reject", r.ref)
          /\ reqs' = Finish(r)
          /\ UNCHANGED <<variant, refs, alive, global, timers, expired>>
       \/ Crash

\* ------------------------------------------------- the M-Pesa STK push endpoints
\* const verificationKey = `mpesa_verification_${checkoutRequestId}`
MKey(id) == <<"mpesa_verification", id>>

\* const requestKey = `mpesa_request_${checkoutRequestId}`
RKey(id) == <<"mpesa_request", id>>

\* requestData?.metadata
RequestMetadata(id) ==
    IF Has(RKey(id)) THEN global[RKey(id)].meta ELSE "nometa"

MpesaOut(ep, code, message, body, calls, branch, ref, after) ==
    [NoResponse EXCEPT !.ep = ep, !.code = code, !.kind = "json",
                       !.message = message, !.body = body, !.calls = calls,
                       !.branch = branch, !.ref = ref, !.after = after]

\* POST /payment/mpesa/initiate up to its await. Passing metadata.userId to
\* initiateSTKPush throws when the request has no metadata.
MpesaInitiateArrive(phoneNumber, amount, hasMetadata) ==
    /\ alive
    /\ variant = "P3"
    /\ IF MissingField(phoneNumber, amount)
       THEN /\ out' = MpesaOut("minitiate", 400,
                               "Phone number and amount are required", NoBody,
                               0, "missing", "-", FALSE)
            /\ UNCHANGED reqs
       ELSE IF ~hasMetadata
       THEN /\ out' = MpesaOut("minitiate", 500, TypeError, NoBody, 0, "throw",
                               "-", FALSE)
            /\ UNCHANGED reqs
       ELSE /\ CanSuspend
            /\ reqs' = Suspend([Request EXCEPT !.ep = "minitiate"])
            /\ out' = NoResponse
    /\ UNCHANGED <<variant, refs, alive, global, timers, expired>>

\* global[requestKey] = { metadata, amount, timestamp: new Date() }
RequestRecord(id) ==
    [from |-> "initiate", ok |-> TRUE, dstatus |-> "-", ref |-> id,
     meta |-> "meta"]

\* POST /payment/mpesa/initiate from the answer of the STK push on: the
\* provider issues a checkout request id, or the call fails.
MpesaInitiateResume(r) ==
    /\ alive
    /\ r.ep = "minitiate"
    /\ \/ \E id \in refs :
            /\ global' = Put(global, RKey(id), RequestRecord(id))
            /\ out' = MpesaOut("minitiate", 200, "-", RequestRecord(id), 1,
                               "resolved", id, FALSE)
            /\ reqs' = Finish(r)
            /\ UNCHANGED <<variant, refs, alive, timers, expired>>
       \/ /\ out' = MpesaOut("minitiate", 500, "STK push request failed",
                             NoBody, 1, "reject", "-", FALSE)
          /\ reqs' = Finish(r)
          /\ UNCHANGED <<variant, refs, alive, global, timers, expired>>

\* GET /payment/mpesa/verify/:checkoutRequestId up to its await.
MpesaVerifyArrive(id) ==
    /\ alive
    /\ variant = "P3"
    /\ IF Has(MKey(id))
       THEN /\ out' = MpesaOut("mverify", 200, "-", global[MKey(id)], 0, "hit",
                               id, FALSE)
            /\ UNCHANGED reqs
       ELSE /\ CanSuspend
            /\ reqs' = Suspend([Request EXCEPT !.ep = "mverify", !.ref = id,
                                               !.after = Expired(MKey(id))])
            /\ out' = NoResponse
    /\ UNCHANGED <<variant, refs, alive, global, timers, expired>>

\* The result codes of an STK status query: paid, and cancelled by the payer.
ResultCodes == {"0", "1032"}

\* const result = { status: success, data: { ..., metadata: requestData?.metadata } }
\* with success = response.ResultCode === '0'
MpesaResult(id, code) ==
    [from |-> "mverify", ok |-> (code = "0"), dstatus |-> code, ref |-> id,
     meta |-> RequestMetadata(id)]

\* GET /payment/mpesa/verify/:checkoutRequestId from the answer of the status
\* query on.
MpesaVerifyResume(r) ==
    /\ alive
    /\ r.ep = "mverify"
    /\ \/ \E code \in ResultCodes :
            /\ Len(timers) < MaxTimers
            /\ global' = Delete(Put(global, MKey(r.ref), MpesaResult(r.ref, code)),
                                RKey(r.ref))
            /\ timers' = SetTimeout(timers, MKey(r.ref), "mverify")
            /\ expired' = expired \ {MKey(r.ref)}
            /\ out' = MpesaOut("mverify", 200, "-", MpesaResult(r.ref, code), 1,
                               "miss", r.ref, r.after)
            /\ reqs' = Finish(r)
            /\ UNCHANGED <<variant, refs, alive>>
       \/ /\ out' = MpesaOut("mverify", 500, "STK query request failed", NoBody,
                             1, "reject", r.ref, r.after)
          /\ reqs' = Finish(r)
          /\ UNCHANGED <<variant, refs, alive, global, timers, expired>>

\* What a delivery to /mpesa/callback carries: no Body, a paid result with its
\* CallbackMetadata items, a paid result lacking an item, or a failed result.
Callbacks == {"nobody", "paid", "malformed", "failed"}

\* The record the callback caches: status true with the receipt, or status
\* false with the result description.
CallbackRecord(id, callback) ==
    [from |-> "callback", ok |-> (callback = "paid"),
     dstatus |-> IF callback = "paid" THEN "0" ELSE "1032", ref |-> id,
     meta |-> RequestMetadata(id)]

\* POST /mpesa/callback: it awaits nothing and sets no timer.
MpesaCallback(id, callback) ==
    /\ alive
    /\ variant = "P3"
    /\ IF callback \in {"nobody", "malformed"}
       THEN /\ out' = MpesaOut("callback", 500, TypeError, NoBody, 0, "throw",
                               id, FALSE)
            /\ UNCHANGED <<global, timers, expired>>
       ELSE /\ global' = Put(global, MKey(id), CallbackRecord(id, callback))
            /\ timers' = Overwritten(timers, MKey(id))
            /\ expired' = expired \ {MKey(id)}
            /\ out' = MpesaOut("callback", 200, "-", NoBody, 0, callback, id,
                               FALSE)
    /\ UNCHANGED <<variant, refs, alive, reqs>>

\* ------------------------------------------------------------------ time
\* The timer list of one duration fires in the order it was filled; a due
\* timer fires before the clock moves on.
TimerFire ==
    /\ alive
    /\ timers # << >>
    /\ Head(timers).left = 0
    /\ global' = Delete(global, Head(timers).key)
    /\ expired' = IF Has(Head(timers).key)
                  THEN expired \cup {Head(timers).key}
                  ELSE expired
    /\ timers' = Tail(timers)
    /\ out' = NoResponse
    /\ UNCHANGED <<variant, refs, alive, reqs>>

\* The clock ticks (with no timer pending the passing of time changes nothing).
Tick ==
    /\ alive
    /\ timers # << >>
    /\ Head(timers).left > 0
    /\ timers' = [i \in 1..Len(timers) |-> [timers[i] EXCEPT !.left = @ - 1]]
    /\ out' = NoResponse
    /\ UNCHANGED <<variant, refs, alive, global, expired, reqs>>

\* The steps of POST /payment/initialize.
NextInitialize ==
    \/ \E email \in Emails, amount \in Amounts, meta \in Metas :
          InitializeArrive(email, amount, meta)
    \/ \E r \in InFlight : InitializeResume(r)

\* The steps of POST /webhook.
NextWebhook ==
    \E raw \in RawBodies, header \in Signatures : Webhook(raw, header)

\* The passing of time.
NextTime ==
    \/ TimerFire
    \/ Tick

\* The steps of the Paystack verify endpoints and of POST /mpesa/webhook.
NextVerifyRequests ==
    \/ \E reference \in OptRefs, accept \in BOOLEAN :
          VerifyArrive(reference, accept)
    \/ \E r \in InFlight : VerifyResume(r)
    \/ \E event \in MpesaEvents, reference \in refs :
          MpesaWebhookArrive(event, reference)
    \/ \E r \in InFlight : MpesaWebhookResume(r)

\* The steps that read or write the Paystack verification cache, and time.
NextVerify ==
    \/ NextVerifyRequests
    \/ NextTime

\* The steps of the M-Pesa STK push endpoints.
NextMpesaRequests ==
    \/ \E phoneNumber \in Phones, amount \in Amounts, hasMetadata \in BOOLEAN :
          MpesaInitiateArrive(phoneNumber, amount, hasMetadata)
    \/ \E r \in InFlight : MpesaInitiateResume(r)
    \/ \E id \in refs : MpesaVerifyArrive(id)
    \/ \E r \in InFlight : MpesaVerifyResume(r)
    \/ \E id \in refs, callback \in Callbacks : MpesaCallback(id, callback)

\* The steps of the M-Pesa STK push endpoints, and time.
NextMpesa ==
    \/ NextMpesaRequests
    \/ NextTime

Next ==
    \/ NextInitialize
    \/ NextWebhook
    \/ NextVerify
    \/ NextMpesa

Spec == Init /\ [][Next]_vars

SpecInitialize == Init /\ [][NextInitialize]_vars

SpecWebhook == Init /\ [][NextWebhook]_vars

SpecVerify == Init /\ [][NextVerify]_vars

SpecMpesa == Init /\ [][NextMpesa]_vars

\* The steps that read or write a verification record, and time.
NextRaces ==
    \/ NextVerifyRequests
    \/ \E id \in refs : MpesaVerifyArrive(id)
    \/ \E r \in InFlight : MpesaVerifyResume(r)
    \/ \E id \in refs, callback \in Callbacks : MpesaCallback(id, callback)
    \/ NextTime

\* The server under the verify requests, the webhook and callback deliveries
\* and the timers that meet at the verification records.
SpecRaces == Init /\ [][NextRaces]_vars

\* The deliveries the providers post to the server.
NextDeliveries ==
    \/ NextWebhook
    \/ \E event \in MpesaEvents, reference \in refs :
          MpesaWebhookArrive(event, reference)
    \/ \E r \in InFlight : MpesaWebhookResume(r)
    \/ \E id \in refs, callback \in Callbacks : MpesaCallback(id, callback)

\* The server under the webhook and callback deliveries, over a stretch of time
\* in which no timer comes due.
SpecDeliveries == Init /\ [][NextDeliveries]_vars

\* The server under every request that reads or writes the verification cache,
\* and the timers.
SpecCache == Init /\ [][NextVerify \/ NextMpesa]_vars

\* The server under the requests of every endpoint that calls an upstream,
\* over a stretch of time in which no timer comes due.
SpecRequests ==
    Init /\ [][NextInitialize \/ NextVerifyRequests \/ NextMpesaRequests]_vars

\* ======================================================================== Claims
\* C1: in every variant that has POST /payment/initialize, a request whose
\* email or amount is missing or falsy is answered 400 without an upstream
\* call (no request is put in flight, the response counts none) and without a
\* change to the cache or its timers.
C1_MissingFieldRejected ==
    [][\A email \in Emails, amount \in Amounts, meta \in Metas :
          (/\ InitializeArrive(email, amount, meta)
           /\ (email \in {<< >>, <<"">>} \/ amount \in {<< >>, <<0>>}))
          => /\ out'.ep = "initialize"
             /\ out'.code = 400
             /\ out'.calls = 0
             /\ reqs' = reqs
             /\ global' = global
             /\ timers' = timers]_vars

\* A request with a missing field has just been answered 400.
C1_Witness ==
    /\ out.ep = "initialize"
    /\ out.code = 400
    /\ out.branch = "missing"

\* C2: a verify call that arrives less than the timeout after a verify call
\* for the same reference cached its result (the timer of that call is still
\* pending) is answered from the cache and issues no upstream call, on
\* /payment/verify and on /payment/mpesa/verify/:checkoutRequestId.
C2_SecondCallHits ==
    [][/\ \A ref \in refs, accept \in BOOLEAN :
            (/\ CachesVerify(variant)
             /\ VerifyArrive(<<ref>>, accept)
             /\ \E i \in 1..Len(timers) :
                    /\ timers[i].key = VKey(ref)
                    /\ timers[i].by = "verify"
                    /\ timers[i].left > 0)
            => (out'.branch = "hit" /\ reqs' = reqs)
       /\ \A id \in refs :
            (/\ MpesaVerifyArrive(id)
             /\ \E i \in 1..Len(timers) :
                    /\ timers[i].key = MKey(id)
                    /\ timers[i].by = "mverify"
                    /\ timers[i].left > 0)
            => (out'.branch = "hit" /\ reqs' = reqs)]_vars

\* C3: while the process lives, a verification record leaves the cache only
\* when the timer set by its own insertion (the latest write of its key) fires,
\* a full timeout after that insertion.
C3_OwnTimerRemoves ==
    [][\A k \in DOMAIN global :
          (/\ k[1] \in {"verification", "mpesa_verification"}
           /\ alive'
           /\ k \notin DOMAIN global')
          => /\ timers # << >>
             /\ Head(timers).key = k
             /\ Head(timers).fresh
             /\ Head(timers).left = 0
             /\ timers' = Tail(timers)]_vars

\* C4: every verification record in the cache has a deletion pending that its
\* own insertion scheduled, so that it is removed a timeout after it was
\* inserted.
C4_EveryRecordTimed ==
    \A k \in DOMAIN global :
        k[1] \in {"verification", "mpesa_verification"}
        => \E i \in 1..Len(timers) : timers[i].key = k /\ timers[i].fresh

\* C5: a /payment/verify call for a reference whose cached record a timer has
\* deleted is not answered from the cache but issues an upstream call; when
\* that call resolves, its result is stored under the reference again and a
\* deletion is scheduled a full timeout ahead.
C5_ExpiredMissesAndRecaches ==
    [][/\ \A ref \in refs, accept \in BOOLEAN :
            (/\ CachesVerify(variant)
             /\ Expired(VKey(ref))
             /\ VerifyArrive(<<ref>>, accept))
            => /\ out' = NoResponse
               /\ BagCardinality(reqs') = BagCardinality(reqs) + 1
               /\ \E r \in BagToSet(reqs') :
                      /\ r.ep = "verify" /\ r.ref = ref /\ r.after
                      /\ CopiesIn(r, reqs') = CopiesIn(r, reqs) + 1
       /\ \A r \in InFlight :
            (/\ CachesVerify(variant)
             /\ r.ep = "verify"
             /\ r.after
             /\ VerifyResume(r)
             /\ out'.branch = "miss")
            => /\ VKey(r.ref) \in DOMAIN global'
               /\ global'[VKey(r.ref)].from = "paystack"
               /\ global'[VKey(r.ref)].ref = r.ref
               /\ out'.accept => out'.body = global'[VKey(r.ref)]
               /\ out'.calls = 1
               /\ timers' # << >>
               /\ timers'[Len(timers')] =
                     [key |-> VKey(r.ref), left |-> TicksPerTimeout,
                      fresh |-> TRUE, by |-> "verify"]]_vars

\* A verify call that found its record expired has been answered from the
\* upstream, and its result is in the cache with a full timeout ahead.
C5_Witness ==
    /\ out.ep = "verify"
    /\ out.branch = "miss"
    /\ out.after
    /\ VKey(out.ref) \in DOMAIN global
    /\ timers # << >>
    /\ timers[Len(timers)].left = TicksPerTimeout

C10_AcceptDecides ==
    (out.ep = "verify" /\ out.branch = "miss" /\ HasQueryVerify(variant))
    => IF out.accept
       THEN /\ out.kind = "json"
            /\ out.body.from = "paystack"
            /\ out.body.dstatus = out.upstream
       ELSE /\ out.kind = "redirect"
            /\ out.rstatus = IF out.upstream = "success" THEN "success"
                                                         ELSE "failed"

\* C10, amended: the Accept header decides in the variants that keep a
\* verification cache; the variant without a cache redirects every caller.
\* The redirect's status is 'success' exactly when the upstream data.status is
\* 'success'.
C10_AcceptDecidesWhereCached ==
    (out.ep = "verify" /\ out.branch = "miss" /\ HasQueryVerify(variant))
    => IF out.accept /\ CachesVerify(variant)
       THEN /\ out.kind = "json"
            /\ out.code = 200
            /\ out.body.from = "paystack"
            /\ out.body.dstatus = out.upstream
       ELSE /\ out.kind = "redirect"
            /\ out.code = 302
            /\ out.rstatus = IF out.upstream = "success" THEN "success"
                                                         ELSE "failed"

\* The variant without a cache has redirected a caller that accepts JSON.
C10_Witness ==
    /\ out.ep = "verify"
    /\ out.branch = "miss"
    /\ ~CachesVerify(variant)
    /\ HasQueryVerify(variant)
    /\ out.accept
    /\ out.kind = "redirect"
    /\ out.upstream = "failed"
    /\ out.rstatus = "failed"

C8_CardAmountTimes100 ==
    \A r \in InFlight :
        (r.ep = "initialize" /\ r.channel = "card") => r.sent = r.amount * 100

\* C11: a request that carries both required fields is forwarded to the
\* upstream call whether or not it carries metadata, on POST
\* /payment/initialize and on POST /payment/mpesa/initiate: the handler answers
\* nothing before its await and one more request is in flight.
C11_MetadataOptional ==
    [][/\ \A email \in Emails, amount \in Amounts, meta \in Metas :
            (/\ InitializeArrive(email, amount, meta)
             /\ email \notin {<< >>, <<"">>}
             /\ amount \notin {<< >>, <<0>>})
            => /\ out' = NoResponse
               /\ BagCardinality(reqs') = BagCardinality(reqs) + 1
       /\ \A phoneNumber \in Phones, amount \in Amounts, hasMetadata \in BOOLEAN :
            (/\ MpesaInitiateArrive(phoneNumber, amount, hasMetadata)
             /\ phoneNumber \notin {<< >>, <<"">>}
             /\ amount \notin {<< >>, <<0>>})
            => /\ out' = NoResponse
               /\ BagCardinality(reqs') = BagCardinality(reqs) + 1]_vars

C13_ConcurrentVerifyBothCall ==
    [][/\ \A ref \in refs, accept \in BOOLEAN :
            (/\ CachesVerify(variant)
             /\ VKey(ref) \notin DOMAIN global
             /\ \E r \in InFlight : r.ep = "verify" /\ r.ref = ref
             /\ VerifyArrive(<<ref>>, accept))
            => /\ out' = NoResponse
               /\ BagCardinality(reqs') = BagCardinality(reqs) + 1
               /\ \A r \in InFlight : CopiesIn(r, reqs') >= CopiesIn(r, reqs)
               /\ \E q \in BagToSet(reqs') :
                      /\ q.ep = "verify" /\ q.ref = ref
                      /\ CopiesIn(q, reqs') = CopiesIn(q, reqs) + 1
       /\ \A r \in InFlight :
            (/\ CachesVerify(variant)
             /\ r.ep = "verify"
             /\ VerifyResume(r)
             /\ out'.branch = "miss")
            => /\ VKey(r.ref) \in DOMAIN global'
               /\ global'[VKey(r.ref)].from = "paystack"
               /\ global'[VKey(r.ref)].dstatus = out'.upstream
               /\ Len(timers') = Len(timers) + 1
               /\ timers'[Len(timers')].key = VKey(r.ref)
               /\ timers'[Len(timers')].left = TicksPerTimeout
               /\ timers'[Len(timers')].fresh
               /\ \A i \in 1..Len(timers) :
                      /\ timers'[i].key = timers[i].key
                      /\ timers'[i].left = timers[i].left
                      /\ timers[i].key = VKey(r.ref) => ~timers'[i].fresh]_vars

\* Two verify calls for one reference have resolved within one tick: the
\* second has just written a failed response over the first one's record, and
\* the timers of both are pending.
C13_Witness ==
    /\ out.ep = "verify"
    /\ out.branch = "miss"
    /\ out.upstream = "failed"
    /\ Len(timers) = 2
    /\ timers[1].key = VKey(out.ref) /\ timers[1].by = "verify"
    /\ ~timers[1].fresh
    /\ timers[2].key = VKey(out.ref) /\ timers[2].by = "verify"
    /\ timers[2].fresh
    /\ timers[1].left = timers[2].left
    /\ global[VKey(out.ref)].dstatus = "failed"

\* C14: a verify request that finds a record under its key (on /payment/verify
\* in the variants with a cache, and on /payment/mpesa/verify) is answered 200
\* with that record as JSON whatever its Accept header, without an upstream
\* call, and leaves the cache, the timers and the requests in flight as they
\* were.
C14_HitChangesNothing ==
    [][/\ \A ref \in refs, accept \in BOOLEAN :
            (/\ variant \in {"S2", "P3"}
             /\ VKey(ref) \in DOMAIN global
             /\ VerifyArrive(<<ref>>, accept))
            => /\ out'.code = 200
               /\ out'.kind = "json"
               /\ out'.body = global[VKey(ref)]
               /\ out'.calls = 0
               /\ out'.accept = accept
               /\ UNCHANGED <<global, timers, expired, reqs>>
       /\ \A id \in refs :
            (/\ MKey(id) \in DOMAIN global
             /\ MpesaVerifyArrive(id))
            => /\ out'.code = 200
               /\ out'.kind = "json"
               /\ out'.body = global[MKey(id)]
               /\ out'.calls = 0
               /\ UNCHANGED <<global, timers, expired, reqs>>]_vars

\* A caller that does not accept JSON has been answered from the cache with a
\* record of a failed verification, while the record's timer is pending.
C14_Witness ==
    /\ out.ep = "verify"
    /\ out.branch = "hit"
    /\ ~out.accept
    /\ out.kind = "json"
    /\ ~out.body.ok
    /\ out.body = global[VKey(out.ref)]
    /\ \E i \in 1..Len(timers) : timers[i].key = VKey(out.ref)

\* C15: POST /webhook only answers: whatever its body and its signature header,
\* the step leaves the verification cache, the pending timers, the requests in
\* flight and every other variable of the process as they were, and its answer
\* counts no upstream call.
C15_WebhookOnlyLogs ==
    [][\A raw \in RawBodies, header \in Signatures :
          Webhook(raw, header)
          => /\ out'.ep = "webhook"
             /\ out'.calls = 0
             /\ UNCHANGED <<variant, refs, alive, global, timers, expired,
                            reqs>>]_vars

\* A signed charge.success has been acknowledged while the cache holds a record,
\* a timer is pending and a delivery to /mpesa/webhook is awaiting its upstream.
C15_Witness ==
    /\ out.ep = "webhook"
    /\ out.code = 200
    /\ out.branch = "charge.success"
    /\ DOMAIN global # {}
    /\ Len(timers) > 0
    /\ InFlight # {}

\* C16: a request awaits at most one upstream call and is never put back in
\* flight. A step adds at most one request to those in flight, and only a
\* request that has not been answered; a step of initialize, verify or
\* /mpesa/webhook that goes on from the upstream's answer (resolved or rejected)
\* takes exactly its own request out of flight and adds none, and its answer
\* counts one call.
C16_NoRetry ==
    [][/\ BagCardinality(reqs') <= BagCardinality(reqs) + 1
       /\ BagCardinality(reqs') > BagCardinality(reqs) => out' = NoResponse
       /\ out'.calls \in {0, 1}
       /\ \A r \in InFlight :
            (/\ \/ InitializeResume(r)
                \/ VerifyResume(r)
                \/ MpesaWebhookResume(r)
             /\ alive')
            => /\ BagCardinality(reqs') = BagCardinality(reqs) - 1
               /\ CopiesIn(r, reqs') = CopiesIn(r, reqs) - 1
               /\ \A q \in BagToSet(reqs') : CopiesIn(q, reqs') <= CopiesIn(q, reqs)
               /\ out'.calls = 1
               /\ out'.ep = r.ep]_vars

\* A verify whose upstream call was rejected has been answered after that one
\* call, and nothing is in flight any more.
C16_Witness ==
    /\ out.ep = "verify"
    /\ out.branch = "reject"
    /\ out.calls = 1
    /\ reqs = EmptyBag
    /\ alive

\* C17: a verify request without a reference is answered 400, without an
\* upstream call, and the cache stays as it was.
C17_NoReferenceIs400 ==
    [][\A accept \in BOOLEAN :
          VerifyArrive(<< >>, accept)
          => /\ out'.code = 400
             /\ out'.calls = 0
             /\ UNCHANGED <<global, timers, reqs>>]_vars

\* C18: a verify (on /payment/verify in the variants with a cache, or on
\* /payment/mpesa/verify) whose upstream call is rejected leaves the cache, the
\* timers and the set of expired keys exactly as they were. The verify for the
\* same reference that arrives next misses and calls upstream again when the
\* cache holds no record under the key; when another request has cached one
\* while the failed call was outstanding, it is answered from that record.
C18_FailedVerifyLeavesCache ==
    [][/\ \A r \in InFlight :
            (/\ \/ variant \in {"S2", "P3"} /\ VerifyResume(r)
                \/ MpesaVerifyResume(r)
             /\ out'.branch = "reject")
            => /\ UNCHANGED <<global, timers, expired>>
               /\ out'.calls = 1
               /\ out'.body = NoBody
               /\ out'.ref = r.ref
       /\ \A ref \in refs, accept \in BOOLEAN :
            (/\ variant \in {"S2", "P3"}
             /\ out.ep = "verify" /\ out.branch = "reject" /\ out.ref = ref
             /\ VerifyArrive(<<ref>>, accept))
            => IF VKey(ref) \in DOMAIN global
               THEN /\ out'.branch = "hit"
                    /\ out'.body = global[VKey(ref)]
                    /\ reqs' = reqs
               ELSE /\ out' = NoResponse
                    /\ BagCardinality(reqs') = BagCardinality(reqs) + 1
                    /\ \E q \in BagToSet(reqs') :
                         /\ q.ep = "verify" /\ q.ref = ref
                         /\ CopiesIn(q, reqs') = CopiesIn(q, reqs) + 1
       /\ \A id \in refs :
            (/\ out.ep = "mverify" /\ out.branch = "reject" /\ out.ref = id
             /\ MpesaVerifyArrive(id))
            => IF MKey(id) \in DOMAIN global
               THEN /\ out'.branch = "hit"
                    /\ out'.body = global[MKey(id)]
                    /\ reqs' = reqs
               ELSE /\ out' = NoResponse
                    /\ BagCardinality(reqs') = BagCardinality(reqs) + 1
                    /\ \E q \in BagToSet(reqs') :
                         /\ q.ep = "mverify" /\ q.ref = id
                         /\ CopiesIn(q, reqs') = CopiesIn(q, reqs) + 1]_vars

\* A verify has failed on a rejected upstream call while the cache holds the
\* record that another verify for the same reference wrote in the meantime,
\* with that record's timer still pending.
C18_Witness ==
    /\ out.ep = "verify"
    /\ out.branch = "reject"
    /\ out.calls = 1
    /\ VKey(out.ref) \in DOMAIN global
    /\ global[VKey(out.ref)].from = "paystack"
    /\ Len(timers) = 1
    /\ timers[1].key = VKey(out.ref)
    /\ timers[1].fresh

\* C18 as stated: a verify whose upstream call is rejected leaves the cache and
\* the timers as they were, and the verify that follows it for the same
\* reference always misses and calls upstream again.
C18_FailedVerifyThenMiss ==
    [][/\ \A r \in InFlight :
            (/\ \/ variant \in {"S2", "P3"} /\ VerifyResume(r)
                \/ MpesaVerifyResume(r)
             /\ out'.branch = "reject")
            => UNCHANGED <<global, timers, expired>>
       /\ \A ref \in refs, accept \in BOOLEAN :
            (/\ variant \in {"S2", "P3"}
             /\ out.ep = "verify" /\ out.branch = "reject" /\ out.ref = ref
             /\ VerifyArrive(<<ref>>, accept))
            => /\ out' = NoResponse
               /\ BagCardinality(reqs') = BagCardinality(reqs) + 1
       /\ \A id \in refs :
            (/\ out.ep = "mverify" /\ out.branch = "reject" /\ out.ref = id
             /\ MpesaVerifyArrive(id))
            => /\ out' = NoResponse
               /\ BagCardinality(reqs') = BagCardinality(reqs) + 1]_vars

\* The record under `key` is a result that a verify handler cached and that
\* does not report success.
NonSuccessOfVerify(key) ==
    /\ key \in DOMAIN global
    /\ \/ global[key].from = "paystack" /\ ~Success(global[key])
       \/ global[key].from = "mverify" /\ ~global[key].ok

\* C19: a verify that gets an upstream result caches it whether or not it
\* reports success. While the cache holds a non-success result that a verify
\* cached, a verify arriving for the reference is answered 200 with that record
\* and calls no upstream; and the record under the key changes only when a
\* timer deletes it, the process dies, or a write replaces it: a verify for the
\* same reference that was already in flight, /mpesa/webhook for it, or
\* /mpesa/callback for it.
C19_NonSuccessServedWhileCached ==
    [][/\ \A r \in InFlight :
            /\ (variant \in {"S2", "P3"} /\ VerifyResume(r) /\ out'.branch = "miss")
               => /\ VKey(r.ref) \in DOMAIN global'
                  /\ global'[VKey(r.ref)].from = "paystack"
                  /\ global'[VKey(r.ref)].dstatus = out'.upstream
                  /\ out'.upstream \in {"success", "failed", "nodata"}
            /\ (MpesaVerifyResume(r) /\ out'.branch = "miss")
               => /\ MKey(r.ref) \in DOMAIN global'
                  /\ global'[MKey(r.ref)] = out'.body
                  /\ out'.body.ok = (out'.body.dstatus = "0")
       /\ \A ref \in refs, accept \in BOOLEAN :
            (NonSuccessOfVerify(VKey(ref)) /\ VerifyArrive(<<ref>>, accept))
            => /\ out'.code = 200
               /\ out'.body = global[VKey(ref)]
               /\ out'.calls = 0
               /\ reqs' = reqs
               /\ global' = global
       /\ \A id \in refs :
            (NonSuccessOfVerify(MKey(id)) /\ MpesaVerifyArrive(id))
            => /\ out'.code = 200
               /\ out'.body = global[MKey(id)]
               /\ out'.calls = 0
               /\ reqs' = reqs
               /\ global' = global
       /\ \A ref \in refs : \A key \in {VKey(ref), MKey(ref)} :
            (/\ NonSuccessOfVerify(key)
             /\ key \in DOMAIN global' => global'[key] # global[key])
            => \/ ~alive'
               \/ key \notin DOMAIN global' /\ TimerFire
               \/ \E r \in InFlight :
                    /\ r.ref = ref
                    /\ \/ VerifyResume(r)
                       \/ MpesaWebhookResume(r)
                       \/ MpesaVerifyResume(r)
               \/ \E callback \in Callbacks : MpesaCallback(ref, callback)]_vars

\* A verify has been answered from the cache with the record of an unpaid
\* transaction that an earlier verify cached.
C19_Witness ==
    /\ out.ep = "verify"
    /\ out.branch = "hit"
    /\ out.accept
    /\ out.calls = 0
    /\ out.body.from = "paystack"
    /\ out.body.dstatus = "failed"
    /\ NonSuccessOfVerify(VKey(out.ref))

\* C19 as stated: once a verify has cached a non-success result, the record
\* under the key stays that record until it is deleted, and every verify for
\* the reference is answered with it without an upstream call.
C19_NonSuccessUntilDeleted ==
    [][/\ \A ref \in refs, accept \in BOOLEAN :
            (NonSuccessOfVerify(VKey(ref)) /\ VerifyArrive(<<ref>>, accept))
            => /\ out'.body = global[VKey(ref)]
               /\ out'.calls = 0
               /\ reqs' = reqs
       /\ \A id \in refs :
            (NonSuccessOfVerify(MKey(id)) /\ MpesaVerifyArrive(id))
            => /\ out'.body = global[MKey(id)]
               /\ out'.calls = 0
               /\ reqs' = reqs
       /\ \A ref \in refs : \A key \in {VKey(ref), MKey(ref)} :
            (NonSuccessOfVerify(key) /\ key \in DOMAIN global')
            => global'[key] = global[key]]_vars

\* C20: for a checkout request id that was initiated (the cache holds the
\* request record stored at initiate, or a verification record that carries
\* its metadata), every verification record that /payment/mpesa/verify or
\* /mpesa/callback writes under the id's key carries that metadata.
C20_MetadataCarried ==
    [][\A id \in refs :
          (/\ \/ Has(RKey(id))
              \/ Has(MKey(id)) /\ global[MKey(id)].meta = "meta"
           /\ \/ /\ \E r \in InFlight : r.ref = id /\ MpesaVerifyResume(r)
                 /\ out'.branch = "miss"
              \/ /\ \E callback \in Callbacks : MpesaCallback(id, callback)
                 /\ out'.code = 200)
          => /\ MKey(id) \in DOMAIN global'
             /\ global'[MKey(id)].meta = "meta"]_vars

\* C21: POST /mpesa/webhook calls upstream only for a charge.success on channel
\* mobile_money, and writes only when that verify of the delivery's reference
\* returned data.status 'success': it then stores, under the key of that
\* reference alone, a record with status true holding the verified data, and
\* schedules one timer for that key. On every other event and every other
\* outcome of the verify it writes no record and schedules no timer: the cache
\* and the timers stay as they were (and are lost with the process when the
\* upstream body does not parse).
C21_WebhookWritesOnSuccess ==
    [][/\ \A event \in MpesaEvents, reference \in refs :
            MpesaWebhookArrive(event, reference)
            => /\ UNCHANGED <<global, timers, expired>>
               /\ reqs' # reqs => event = "mobile_money"
       /\ \A r \in InFlight :
            /\ \A resp \in PaystackVerifyResponses(r.ref) :
                 MpesaWebhookResolved(r, resp)
                 => IF resp.dstatus = "success"
                    THEN /\ DOMAIN global' = DOMAIN global \cup {VKey(r.ref)}
                         /\ \A k \in DOMAIN global \ {VKey(r.ref)} :
                              global'[k] = global[k]
                         /\ global'[VKey(r.ref)] =
                              [from |-> "webhook", ok |-> TRUE,
                               dstatus |-> "success", ref |-> r.ref,
                               meta |-> resp.meta]
                         /\ Len(timers') = Len(timers) + 1
                         /\ timers'[Len(timers')].key = VKey(r.ref)
                         /\ timers'[Len(timers')].left = TicksPerTimeout
                    ELSE UNCHANGED <<global, timers, expired>>
            /\ MpesaWebhookResume(r)
               => \/ /\ VKey(r.ref) \in DOMAIN global'
                     /\ global'[VKey(r.ref)].ok
                     /\ global'[VKey(r.ref)].dstatus = "success"
                     /\ Len(timers') = Len(timers) + 1
                  \/ UNCHANGED <<global, timers, expired>>
                  \/ ~alive' /\ global' = << >> /\ timers' = << >>]_vars

\* A delivery to /mpesa/webhook has been verified and has replaced, with its
\* own record, the record that a verify had cached and whose timer is still
\* pending.
C21_Witness ==
    /\ out.ep = "mwebhook"
    /\ out.branch = "verified"
    /\ out.calls = 1
    /\ VKey(out.ref) \in DOMAIN global
    /\ global[VKey(out.ref)].from = "webhook"
    /\ global[VKey(out.ref)].ok
    /\ Len(timers) = 2
    /\ timers[1].by = "verify" /\ ~timers[1].fresh
    /\ timers[2].by = "webhook" /\ timers[2].fresh

================================================================================
